---- MODULE Spec2Model ----
(***************************************************************************)
(* Model of src/Code.js: updateActivityLevels and the helper               *)
(* generateRecentDistinctDates (Google Apps Script).                       *)
(*                                                                         *)
(* Text is a sequence of one-character strings, so that trim, toLowerCase, *)
(* String() and parseInt are computed character by character.  A sheet     *)
(* cell is a record: [t |-> "s", s |-> text] for a text cell (the empty    *)
(* cell is the empty text) and [t |-> "n", n |-> integer] for a number.    *)
(***************************************************************************)
EXTENDS Integers, Sequences, FiniteSets

VARIABLES
    pc,                     \* position of the run of updateActivityLevels
    uatData,                \* rows of 'Update Attendance Tracker' from row 7 on
    statsData,              \* rows of the 'Attendance Stats' tab
    today,                  \* new Date() of the run, in the script's own zone
    timeZone,               \* spreadsheet zone, as hours ahead of the script's zone
    eventSheet,             \* rows of the 'Event Attendance' tab; <<>> when absent
    hasEventSheet,          \* whether the 'Event Attendance' tab exists
    i,                      \* number of tracker rows already handled
    formattedExecutionDate,
    recordsToProcessCount,
    recordsSkippedOrFailed,
    recordsMissingDetailsUAT,
    eventAttendancesLogged,
    newCalculatedScoreK,    \* score of the row handled last; NoScore when none
    rowsForEventAttendance, \* rows built for the row handled last
    setup,                  \* what the run finds when it opens its sheets
    alert,                  \* title of the dialog the run ended with
    call,                   \* arguments of a direct call of a helper
    ret                     \* its result

vars == <<pc, uatData, statsData, today, timeZone, eventSheet, hasEventSheet, i,
          formattedExecutionDate, recordsToProcessCount, recordsSkippedOrFailed,
          recordsMissingDetailsUAT, eventAttendancesLogged, newCalculatedScoreK,
          rowsForEventAttendance, setup, alert, call, ret>>

-----------------------------------------------------------------------------
(* Column indices (1-based, as in the source).                              *)

UAT_COL_ID == 1
UAT_COL_FULL_NAME == 2
UAT_COL_LAST_NAME == 3
UAT_COL_FIRST_NAME == 4
UAT_COL_ACTIVITY_LEVEL == 5
STATS_COL_PERSON_ID == 1
STATS_COL_FIRST_NAME == 3
STATS_COL_LAST_NAME == 4
STATS_COL_QUARTER_EVENTS == 5
STATS_COL_ACTIVITY_SCORE == 12

TARGET_SUM_ACTIVE_MIN == 3
TARGET_SUM_ACTIVE_MAX == 11
CORE_K_MIN_VALUE == 12
EVENT_ROW_WIDTH == 14
SETTINGS_COL_COMMUNITY_ID == 2
SETTINGS_COL_ATTENDANCE_STATS_URL == 3
SETTINGS_COL_DIRECTORY_URL == 4

-----------------------------------------------------------------------------
(* Text, cells and the JavaScript conversions the code applies to them.     *)

Str(s) == [t |-> "s", s |-> s]
Num(n) == [t |-> "n", n |-> n]
EmptyCell == Str(<<>>)

UpperChars == <<"A","B","C","D","E","F","G","H","I","J","K","L","M",
                "N","O","P","Q","R","S","T","U","V","W","X","Y","Z">>
LowerChars == <<"a","b","c","d","e","f","g","h","i","j","k","l","m",
                "n","o","p","q","r","s","t","u","v","w","x","y","z">>
DigitChars == <<"0","1","2","3","4","5","6","7","8","9">>
WhiteSpace == {" ", "\t", "\n"}

Max(a, b) == IF a >= b THEN a ELSE b
Min(a, b) == IF a <= b THEN a ELSE b

IsDigit(c) == \E d \in 1..10 : DigitChars[d] = c
DigitVal(c) == (CHOOSE d \in 1..10 : DigitChars[d] = c) - 1

\* String.prototype.toLowerCase, character by character.
LowerChar(c) ==
    IF \E k \in 1..26 : UpperChars[k] = c
    THEN LowerChars[CHOOSE k \in 1..26 : UpperChars[k] = c]
    ELSE c
ToLowerCase(s) == [k \in 1..Len(s) |-> LowerChar(s[k])]

\* String.prototype.trim: white space is removed at both ends only.
RECURSIVE TrimStart(_)
TrimStart(s) ==
    IF s # <<>> /\ Head(s) \in WhiteSpace THEN TrimStart(Tail(s)) ELSE s
RECURSIVE TrimEnd(_)
TrimEnd(s) ==
    IF s # <<>> /\ s[Len(s)] \in WhiteSpace
    THEN TrimEnd(SubSeq(s, 1, Len(s) - 1)) ELSE s
Trim(s) == TrimEnd(TrimStart(s))

\* String(x): a text as it is, an integer as its decimal digits with "-" in
\* front when negative.
RECURSIVE NatToString(_)
NatToString(n) ==
    IF n < 10 THEN <<DigitChars[n + 1]>>
    ELSE NatToString(n \div 10) \o <<DigitChars[(n % 10) + 1]>>
StringOf(cell) ==
    IF cell.t = "s" THEN cell.s
    ELSE IF cell.n < 0 THEN <<"-">> \o NatToString(-cell.n)
    ELSE NatToString(cell.n)

\* The truthiness of a cell value in `x && ...`: "" and 0 are falsy.
Truthy(cell) == IF cell.t = "s" THEN cell.s # <<>> ELSE cell.n # 0

\* parseInt(x, 10): String(x), leading white space skipped, an optional sign,
\* then the longest run of digits; NaN ([nan |-> TRUE]) when there is no digit.
RECURSIVE DigitsPrefix(_)
DigitsPrefix(s) ==
    IF s # <<>> /\ IsDigit(Head(s)) THEN <<Head(s)>> \o DigitsPrefix(Tail(s))
    ELSE <<>>
RECURSIVE DigitsValue(_)
DigitsValue(ds) ==
    IF ds = <<>> THEN 0
    ELSE 10 * DigitsValue(SubSeq(ds, 1, Len(ds) - 1)) + DigitVal(ds[Len(ds)])
ParseInt(cell) ==
    LET s    == TrimStart(StringOf(cell))
        neg  == s # <<>> /\ Head(s) = "-"
        body == IF s # <<>> /\ Head(s) \in {"-", "+"} THEN Tail(s) ELSE s
        ds   == DigitsPrefix(body)
    IN  IF ds = <<>> THEN [nan |-> TRUE, v |-> 0]
        ELSE [nan |-> FALSE, v |-> IF neg THEN -DigitsValue(ds) ELSE DigitsValue(ds)]
\* `parseInt(x, 10) || 0`: NaN and 0 are falsy.
ParseIntOrZero(cell) ==
    LET p == ParseInt(cell) IN IF p.nan THEN 0 ELSE p.v

-----------------------------------------------------------------------------
(* The score of one person: the switch of updateActivityLevels.             *)

NoScore == [known |-> FALSE, K |-> 0]

\* Variants of the switch with one policy changed.
ScoreSwitchNoFloor(uatActivityLevelTrimmed, current_E_val, current_K_val) ==
    CASE uatActivityLevelTrimmed = <<"i","n","a","c","t","i","v","e">> ->
            [known |-> TRUE, K |-> 1]
      [] uatActivityLevelTrimmed = <<"a","c","t","i","v","e">> ->
            [known |-> TRUE,
             K |-> Min(TARGET_SUM_ACTIVE_MAX,
                       Max(TARGET_SUM_ACTIVE_MIN, current_E_val + current_K_val + 3))
                   - current_E_val]
      [] uatActivityLevelTrimmed = <<"c","o","r","e">> ->
            [known |-> TRUE, K |-> CORE_K_MIN_VALUE]
      [] OTHER -> [known |-> FALSE, K |-> 0]
ScoreSwitchCoreSum(uatActivityLevelTrimmed, current_E_val, current_K_val) ==
    CASE uatActivityLevelTrimmed = <<"i","n","a","c","t","i","v","e">> ->
            [known |-> TRUE, K |-> 1]
      [] uatActivityLevelTrimmed = <<"a","c","t","i","v","e">> ->
            [known |-> TRUE,
             K |-> Max(0, Min(TARGET_SUM_ACTIVE_MAX,
                              Max(TARGET_SUM_ACTIVE_MIN, current_E_val + current_K_val + 3))
                          - current_E_val)]
      [] uatActivityLevelTrimmed = <<"c","o","r","e">> ->
            [known |-> TRUE, K |-> Max(0, CORE_K_MIN_VALUE - current_E_val)]
      [] OTHER -> [known |-> FALSE, K |-> 0]
ScoreSwitchNoCap(uatActivityLevelTrimmed, current_E_val, current_K_val) ==
    CASE uatActivityLevelTrimmed = <<"i","n","a","c","t","i","v","e">> ->
            [known |-> TRUE, K |-> 1]
      [] uatActivityLevelTrimmed = <<"a","c","t","i","v","e">> ->
            [known |-> TRUE,
             K |-> Max(0, Max(TARGET_SUM_ACTIVE_MIN, current_E_val + current_K_val + 3)
                          - current_E_val)]
      [] uatActivityLevelTrimmed = <<"c","o","r","e">> ->
            [known |-> TRUE, K |-> CORE_K_MIN_VALUE]
      [] OTHER -> [known |-> FALSE, K |-> 0]

\* The switch on the trimmed, lower-cased level with E and K already parsed.
ScoreSwitch(uatActivityLevelTrimmed, current_E_val, current_K_val) ==
    CASE uatActivityLevelTrimmed = <<"i","n","a","c","t","i","v","e">> ->
            [known |-> TRUE, K |-> 1]
      [] uatActivityLevelTrimmed = <<"a","c","t","i","v","e">> ->
            LET points_to_add_active == 3
                tentative_K_active == current_K_val + points_to_add_active
                target_sum_active ==
                    Min(TARGET_SUM_ACTIVE_MAX,
                        Max(TARGET_SUM_ACTIVE_MIN, current_E_val + tentative_K_active))
            IN  [known |-> TRUE, K |-> Max(0, target_sum_active - current_E_val)]
      [] uatActivityLevelTrimmed = <<"c","o","r","e">> ->
            [known |-> TRUE, K |-> CORE_K_MIN_VALUE]
      [] OTHER -> NoScore

-----------------------------------------------------------------------------
(* Dates.  A Date is its wall-clock reading in the script's own time zone,  *)
(* counted in hours from 1 January of BaseYear, 00:00; getTime() orders     *)
(* Dates as these readings do.  Months are 0-based as in JavaScript.        *)

BaseYear == 2024

IsLeapYear(y) == (y % 4 = 0 /\ y % 100 # 0) \/ y % 400 = 0
DaysInMonth(y, m) ==
    CASE m = 1 -> IF IsLeapYear(y) THEN 29 ELSE 28
      [] m \in {3, 5, 8, 10} -> 30
      [] OTHER -> 31
YearLength(y) == IF IsLeapYear(y) THEN 366 ELSE 365

\* Days of year y before its month m (0..12).
CumulativeDays == <<0, 31, 59, 90, 120, 151, 181, 212, 243, 273, 304, 334, 365>>
DaysBeforeMonth(y, m) ==
    CumulativeDays[m + 1] + (IF IsLeapYear(y) /\ m >= 2 THEN 1 ELSE 0)
RECURSIVE DaysBeforeYear(_)
DaysBeforeYear(y) ==
    IF y = BaseYear THEN 0
    ELSE IF y > BaseYear THEN DaysBeforeYear(y - 1) + YearLength(y - 1)
    ELSE DaysBeforeYear(y + 1) - YearLength(y)

\* new Date(y, m, d) at hour h: a day of the month outside 1..DaysInMonth
\* carries into the neighbouring months, as JavaScript's MakeDay does.
MakeDate(y, m, d, h) == (DaysBeforeYear(y) + DaysBeforeMonth(y, m) + d - 1) * 24 + h

\* The calendar day [year, month, date] that holds day number n.
MonthOfDay(y, n) ==
    LET m == CHOOSE k \in 0..11 : DaysBeforeMonth(y, k) <= n /\ n < DaysBeforeMonth(y, k + 1)
    IN  [year |-> y, month |-> m, date |-> n - DaysBeforeMonth(y, m) + 1]
RECURSIVE CivilFrom(_, _)
CivilFrom(y, n) ==
    IF n < 0 THEN CivilFrom(y - 1, n + YearLength(y - 1))
    ELSE IF n >= YearLength(y) THEN CivilFrom(y + 1, n - YearLength(y))
    ELSE MonthOfDay(y, n)
FloorDiv24(t) == IF t >= 0 THEN t \div 24 ELSE -((23 - t) \div 24)
Civil(t) == CivilFrom(BaseYear, FloorDiv24(t))

GetFullYear(t) == Civil(t).year
GetMonth(t) == Civil(t).month
GetDate(t) == Civil(t).date
GetHours(t) == t - 24 * FloorDiv24(t)

\* Utilities.formatDate(date, timeZone, "M/d/yyyy"): the calendar day of the
\* instant as read in timeZone, which is tz hours ahead of the script's zone;
\* <<M, d, yyyy>> with M counted from 1.
FormatDate(t, tz) ==
    LET c == Civil(t + tz) IN <<c.month + 1, c.date, c.year>>

\* The quarter start month chosen from the reference date's month.
QuarterStartMonth(month) ==
    IF month < 3 THEN 0 ELSE IF month < 6 THEN 3 ELSE IF month < 9 THEN 6 ELSE 9
\* Variant: the loop never breaks at the quarter start.
generateDatesNoBreak(N, referenceDate, tz) ==
    IF N <= 0 THEN <<>>
    ELSE [k \in 1..N |->
            FormatDate(MakeDate(GetFullYear(referenceDate), GetMonth(referenceDate),
                                GetDate(referenceDate) - (k - 1), GetHours(referenceDate)),
                       tz)]

\* generateRecentDistinctDates: year, month and quarterStartDate are computed
\* once; the for loop pushes the formatted eventDate of k = 0, 1, ... and
\* breaks at the first k whose eventDate lies before quarterStartDate, so it
\* pushes for the k below `stop`, the first k that breaks or reaches N.
generateRecentDistinctDates(N, referenceDate, tz) ==
    IF N <= 0 THEN <<>>
    ELSE LET year == GetFullYear(referenceDate)
             month == GetMonth(referenceDate)
             date == GetDate(referenceDate)
             hours == GetHours(referenceDate)
             quarterStartDate == MakeDate(year, QuarterStartMonth(month), 1, 0)
             eventDate(k) == MakeDate(year, month, date - k, hours)
             breaks == {k \in 0..(N - 1) : eventDate(k) < quarterStartDate}
             stop == IF breaks = {} THEN N
                     ELSE CHOOSE k \in breaks : \A j \in breaks : k <= j
         IN  [k \in 1..stop |-> FormatDate(eventDate(k - 1), tz)]

-----------------------------------------------------------------------------
(* Sheets.  A sheet is the sequence of its rows up to the last row written; *)
(* a row is a sequence of cells.                                            *)

Null == [t |-> "null"]
Header(name) == [t |-> "header", name |-> name]
Label(n) == [t |-> "label", text |-> "BASELINE ADJUSTMENT ", counter |-> n]
DateCell(d) == [t |-> "date", d |-> d]

HasContent(cell) == cell # Null /\ cell # EmptyCell
\* Sheet.getLastRow(): the last row holding content, 0 on an empty sheet.
RECURSIVE GetLastRow(_)
GetLastRow(sheet) ==
    IF sheet = <<>> THEN 0
    ELSE IF \E c \in 1..Len(sheet[Len(sheet)]) : HasContent(sheet[Len(sheet)][c])
    THEN Len(sheet)
    ELSE GetLastRow(SubSeq(sheet, 1, Len(sheet) - 1))
BlankRow == [c \in 1..EVENT_ROW_WIDTH |-> Null]
\* Variant: the range starts one row early, on the last row with content.
SetValuesFromLastRow(sheet, startRow, rows) ==
    [r \in 1..Max(Len(sheet), startRow + Len(rows) - 2) |->
        IF r >= startRow - 1 /\ r < startRow - 1 + Len(rows) THEN rows[r - startRow + 2]
        ELSE IF r <= Len(sheet) THEN sheet[r]
        ELSE BlankRow]
\* getRange(startRow, 1, Len(rows), width).setValues(rows)
SetValues(sheet, startRow, rows) ==
    [r \in 1..Max(Len(sheet), startRow + Len(rows) - 1) |->
        IF r >= startRow /\ r < startRow + Len(rows) THEN rows[r - startRow + 1]
        ELSE IF r <= Len(sheet) THEN sheet[r]
        ELSE BlankRow]

\* The header row appended when the 'Event Attendance' tab is created.
EventHeaderRow ==
    <<Header("Person ID"), Header("Full Name"), Header("Event"),
      Header("First Name"), Header("Last Name"),
      Null, Null, Null, Null, Null,
      Header("Event Date"),
      Null, Null,
      Header("Update Timestamp")>>

-----------------------------------------------------------------------------
(* One tracker row of updateActivityLevels.                                 *)

\* `x && String(x).trim() !== ""`
Present(cell) == Truthy(cell) /\ Trim(StringOf(cell)) # <<>>

\* Variant: the names are not tested.
CompleteRowIdOnly(row) ==
    /\ Present(row[UAT_COL_ID])
    /\ Present(row[UAT_COL_ACTIVITY_LEVEL])

CompleteRow(row) ==
    /\ Present(row[UAT_COL_ID])
    /\ Present(row[UAT_COL_LAST_NAME])
    /\ Present(row[UAT_COL_FIRST_NAME])
    /\ Present(row[UAT_COL_ACTIVITY_LEVEL])
MissingDetailsRow(row) ==
    /\ Present(row[UAT_COL_ACTIVITY_LEVEL])
    /\ ~(/\ Present(row[UAT_COL_ID])
         /\ Present(row[UAT_COL_LAST_NAME])
         /\ Present(row[UAT_COL_FIRST_NAME]))

\* Variant: the person id is compared ignoring letter case as well.
StatsRowMatchesIdIgnoreCase(statsRow, row) ==
    /\ ToLowerCase(Trim(StringOf(statsRow[STATS_COL_PERSON_ID])))
         = ToLowerCase(Trim(StringOf(row[UAT_COL_ID])))
    /\ ToLowerCase(Trim(StringOf(statsRow[STATS_COL_FIRST_NAME])))
         = ToLowerCase(Trim(StringOf(row[UAT_COL_FIRST_NAME])))
    /\ ToLowerCase(Trim(StringOf(statsRow[STATS_COL_LAST_NAME])))
         = ToLowerCase(Trim(StringOf(row[UAT_COL_LAST_NAME])))

\* The condition of the stats loop for stats row j and a tracker row.
StatsRowMatches(statsRow, row) ==
    /\ Trim(StringOf(statsRow[STATS_COL_PERSON_ID])) = Trim(StringOf(row[UAT_COL_ID]))
    /\ ToLowerCase(Trim(StringOf(statsRow[STATS_COL_FIRST_NAME])))
         = ToLowerCase(Trim(StringOf(row[UAT_COL_FIRST_NAME])))
    /\ ToLowerCase(Trim(StringOf(statsRow[STATS_COL_LAST_NAME])))
         = ToLowerCase(Trim(StringOf(row[UAT_COL_LAST_NAME])))

\* The stats loop: E and K of the first matching row, (0, 0) when none matches.
CurrentStats(stats, row) ==
    LET hits == {j \in 1..Len(stats) : StatsRowMatches(stats[j], row)}
    IN  IF hits = {} THEN [found |-> FALSE, E |-> 0, K |-> 0]
        ELSE LET j == CHOOSE j \in hits : \A k \in hits : j <= k
             IN  [found |-> TRUE,
                  E |-> ParseIntOrZero(stats[j][STATS_COL_QUARTER_EVENTS]),
                  K |-> ParseIntOrZero(stats[j][STATS_COL_ACTIVITY_SCORE])]

\* Variant: an unknown level falls through to the 'inactive' score.
ScoreOfDefaultInactive(stats, row) ==
    LET cur == CurrentStats(stats, row)
        score == ScoreSwitch(ToLowerCase(Trim(StringOf(row[UAT_COL_ACTIVITY_LEVEL]))),
                             cur.E, cur.K)
    IN  IF score.known THEN score ELSE [known |-> TRUE, K |-> 1]
\* Variant: a person without a stats row gets no score.
ScoreOfNeedsStats(stats, row) ==
    LET cur == CurrentStats(stats, row)
    IN  IF cur.found
        THEN ScoreSwitch(ToLowerCase(Trim(StringOf(row[UAT_COL_ACTIVITY_LEVEL]))),
                         cur.E, cur.K)
        ELSE [known |-> FALSE, K |-> 0]

\* The lookup and the switch for one tracker row.
ScoreOf(stats, row) ==
    LET cur == CurrentStats(stats, row)
    IN  ScoreSwitch(ToLowerCase(Trim(StringOf(row[UAT_COL_ACTIVITY_LEVEL]))), cur.E, cur.K)

\* Variant: the label counts from 0.
NewEventAttendanceRowZeroBased(row, eventCounter, eventDate, executionDate) ==
    [c \in 1..EVENT_ROW_WIDTH |->
        CASE c = 1  -> row[UAT_COL_ID]
          [] c = 2  -> row[UAT_COL_FULL_NAME]
          [] c = 3  -> Label(eventCounter - 1)
          [] c = 5  -> row[UAT_COL_FIRST_NAME]
          [] c = 6  -> row[UAT_COL_LAST_NAME]
          [] c = 11 -> DateCell(eventDate)
          [] c = 14 -> DateCell(executionDate)
          [] OTHER  -> Null]

\* One row of rowsForEventAttendance: new Array(14).fill(null), then the
\* assignments to indices 0, 1, 2, 4, 5, 10 and 13 (here 1-based).
NewEventAttendanceRow(row, eventCounter, eventDate, executionDate) ==
    [c \in 1..EVENT_ROW_WIDTH |->
        CASE c = 1  -> row[UAT_COL_ID]
          [] c = 2  -> row[UAT_COL_FULL_NAME]
          [] c = 3  -> Label(eventCounter)
          [] c = 5  -> row[UAT_COL_FIRST_NAME]
          [] c = 6  -> row[UAT_COL_LAST_NAME]
          [] c = 11 -> DateCell(eventDate)
          [] c = 14 -> DateCell(executionDate)
          [] OTHER  -> Null]

\* Variant: the label counter runs on from the rows logged for earlier persons.
EventRowsForRunningCounter(row, K, refDate, tz, executionDate) ==
    IF K > 0
    THEN LET eventDates == generateRecentDistinctDates(K, refDate, tz)
         IN  [n \in 1..Len(eventDates) |->
                 NewEventAttendanceRow(row, eventAttendancesLogged + n, eventDates[n],
                                       executionDate)]
    ELSE <<>>

\* The rows built for a person with score K: one per generated date.
EventRowsFor(row, K, refDate, tz, executionDate) ==
    IF K > 0
    THEN LET eventDates == generateRecentDistinctDates(K, refDate, tz)
         IN  [n \in 1..Len(eventDates) |->
                 NewEventAttendanceRow(row, n, eventDates[n], executionDate)]
    ELSE <<>>

SkippedEntry(row) ==
    [firstName |-> row[UAT_COL_FIRST_NAME], lastName |-> row[UAT_COL_LAST_NAME],
     id |-> row[UAT_COL_ID], why |-> "Unknown Level"]

-----------------------------------------------------------------------------
(* What the run finds before its loop.  setup is a record:                  *)
(*   uatSheet      the 'Update Attendance Tracker' tab exists               *)
(*   communityId   the cell B4 of that tab                                  *)
(*   settingsTab   the 'Settings' tab exists                                *)
(*   settingsData  its rows                                                 *)
(*   opens         openByUrl succeeds on the stats URL                      *)
(*   statsTab      the opened spreadsheet has an 'Attendance Stats' tab     *)

\* Number(s) of a text for `==`: white space trimmed, "" is 0, an optional
\* sign and digits only; NaN otherwise.
TextToNumber(s) ==
    LET u    == Trim(s)
        body == IF u # <<>> /\ Head(u) \in {"-", "+"} THEN Tail(u) ELSE u
    IN  IF u = <<>> THEN [nan |-> FALSE, v |-> 0]
        ELSE IF body # <<>> /\ DigitsPrefix(body) = body
        THEN [nan |-> FALSE,
              v |-> IF Head(u) = "-" THEN -DigitsValue(body) ELSE DigitsValue(body)]
        ELSE [nan |-> TRUE, v |-> 0]
\* a == b on cell values: a text and a number are compared as numbers.
LooseEquals(a, b) ==
    IF a.t = b.t THEN a = b
    ELSE LET text == IF a.t = "s" THEN a.s ELSE b.s
             n == IF a.t = "n" THEN a.n ELSE b.n
             x == TextToNumber(text)
         IN  ~x.nan /\ x.v = n

NoUrls == [found |-> FALSE, directoryUrl |-> EmptyCell, statsUrl |-> EmptyCell]
\* getCommunityUrls: null (NoUrls) after an alert, or the two URLs of the
\* first Settings row whose community id == communityId.
getCommunityUrls(communityId, settingsTab, settingsData) ==
    IF ~Truthy(communityId) THEN NoUrls
    ELSE IF ~settingsTab THEN NoUrls
    ELSE LET hits == {r \in 1..Len(settingsData) :
                         LooseEquals(settingsData[r][SETTINGS_COL_COMMUNITY_ID], communityId)}
         IN  IF hits = {} THEN NoUrls
             ELSE LET r == CHOOSE r \in hits : \A q \in hits : r <= q
                  IN  [found |-> TRUE,
                       directoryUrl |-> settingsData[r][SETTINGS_COL_DIRECTORY_URL],
                       statsUrl |-> settingsData[r][SETTINGS_COL_ATTENDANCE_STATS_URL]]

\* Variant: the test for the 'Attendance Stats' tab is left out.
EarlyReturnNoTabTest(env) ==
    \/ ~env.uatSheet
    \/ ~Truthy(env.communityId)
    \/ LET urls == getCommunityUrls(env.communityId, env.settingsTab, env.settingsData)
       IN  ~urls.found \/ ~Truthy(urls.statsUrl)
    \/ ~env.opens

\* The returns of updateActivityLevels that come before the event sheet is
\* looked up; each follows an 'Error' alert.
EarlyReturn(env) ==
    \/ ~env.uatSheet
    \/ ~Truthy(env.communityId)
    \/ LET urls == getCommunityUrls(env.communityId, env.settingsTab, env.settingsData)
       IN  ~urls.found \/ ~Truthy(urls.statsUrl)
    \/ ~env.opens
    \/ ~env.statsTab

-----------------------------------------------------------------------------
(* The run of updateActivityLevels.                                         *)

RunUnchanged == UNCHANGED <<uatData, statsData, today, timeZone, setup, call, ret>>

\* From the entry of the function to the start of the loop over tracker rows.
Begin ==
    /\ pc = "start"
    /\ RunUnchanged
    /\ UNCHANGED <<i, recordsToProcessCount, recordsSkippedOrFailed,
                   recordsMissingDetailsUAT, eventAttendancesLogged,
                   newCalculatedScoreK, rowsForEventAttendance>>
    /\ IF EarlyReturn(setup)
       THEN /\ pc' = "done"
            /\ alert' = "Error"
            /\ UNCHANGED <<eventSheet, hasEventSheet, formattedExecutionDate>>
       ELSE /\ hasEventSheet' = TRUE
            /\ eventSheet' = IF hasEventSheet THEN eventSheet
                             ELSE <<EventHeaderRow>>
            /\ IF Len(uatData) = 0
               THEN /\ pc' = "done"
                    /\ alert' = "Info"
                    /\ UNCHANGED formattedExecutionDate
               ELSE /\ pc' = "loop"
                    /\ alert' = alert
                    /\ formattedExecutionDate' = FormatDate(today, timeZone)

\* One iteration of the loop over the tracker rows.
ProcessRow ==
    /\ pc = "loop"
    /\ i < Len(uatData)
    /\ RunUnchanged
    /\ UNCHANGED <<pc, hasEventSheet, formattedExecutionDate, alert>>
    /\ i' = i + 1
    /\ LET row == uatData[i + 1]
           score == ScoreOf(statsData, row)
           rows == EventRowsFor(row, score.K, today, timeZone, formattedExecutionDate)
       IN  IF CompleteRow(row)
           THEN /\ recordsToProcessCount' = recordsToProcessCount + 1
                /\ UNCHANGED recordsMissingDetailsUAT
                /\ newCalculatedScoreK' = score
                /\ IF ~score.known
                   THEN /\ recordsSkippedOrFailed' =
                              Append(recordsSkippedOrFailed, SkippedEntry(row))
                        /\ rowsForEventAttendance' = <<>>
                        /\ UNCHANGED <<eventSheet, eventAttendancesLogged>>
                   ELSE /\ UNCHANGED recordsSkippedOrFailed
                        /\ rowsForEventAttendance' = rows
                        /\ IF Len(rows) > 0
                           THEN /\ eventSheet' =
                                      SetValues(eventSheet, GetLastRow(eventSheet) + 1, rows)
                                /\ eventAttendancesLogged' = eventAttendancesLogged + Len(rows)
                           ELSE UNCHANGED <<eventSheet, eventAttendancesLogged>>
           ELSE /\ recordsMissingDetailsUAT' =
                      IF MissingDetailsRow(row) THEN recordsMissingDetailsUAT + 1
                      ELSE recordsMissingDetailsUAT
                /\ newCalculatedScoreK' = NoScore
                /\ rowsForEventAttendance' = <<>>
                /\ UNCHANGED <<recordsToProcessCount, recordsSkippedOrFailed,
                               eventSheet, eventAttendancesLogged>>

\* After the loop: the summary dialog.
Finish ==
    /\ pc = "loop"
    /\ i = Len(uatData)
    /\ pc' = "done"
    /\ alert' = "Processing Complete"
    /\ RunUnchanged
    /\ UNCHANGED <<eventSheet, hasEventSheet, i, formattedExecutionDate,
                   recordsToProcessCount, recordsSkippedOrFailed,
                   recordsMissingDetailsUAT, eventAttendancesLogged,
                   newCalculatedScoreK, rowsForEventAttendance>>

-----------------------------------------------------------------------------
(* Direct calls of the helpers, for the properties of the pure functions.   *)

\* The stats parsing and the switch for one person, on raw cells.
ResolveCall ==
    /\ pc = "call"
    /\ call.fn = "resolve"
    /\ ret = <<>>
    /\ ret' = <<ScoreSwitch(ToLowerCase(Trim(StringOf(call.level))),
                            ParseIntOrZero(call.E), ParseIntOrZero(call.K))>>
    /\ UNCHANGED <<pc, uatData, statsData, today, timeZone, eventSheet, hasEventSheet,
                   i, formattedExecutionDate, recordsToProcessCount,
                   recordsSkippedOrFailed, recordsMissingDetailsUAT,
                   eventAttendancesLogged, newCalculatedScoreK,
                   rowsForEventAttendance, setup, alert, call>>

GenerateCall ==
    /\ pc = "call"
    /\ call.fn = "generate"
    /\ ret = <<>>
    /\ ret' = <<generateRecentDistinctDates(call.N, call.referenceDate, call.tz)>>
    /\ UNCHANGED <<pc, uatData, statsData, today, timeZone, eventSheet, hasEventSheet,
                   i, formattedExecutionDate, recordsToProcessCount,
                   recordsSkippedOrFailed, recordsMissingDetailsUAT,
                   eventAttendancesLogged, newCalculatedScoreK,
                   rowsForEventAttendance, setup, alert, call>>

-----------------------------------------------------------------------------
(* Inputs.                                                                  *)

MaxRows == 2        \* tracker rows of a run
MaxN == 13          \* largest N of a direct call of generateRecentDistinctDates
MaxDay == 400       \* reference dates of direct calls: BaseYear's 1 Jan + 0..MaxDay
MaxAbs == 16        \* E and K cells of direct calls hold -MaxAbs..MaxAbs

Hours == {0, 12, 23}
TimeZones == {-1, 0, 1}

tA1 == <<"A","1">>
ta1 == <<"a","1">>
tA1pad == <<" ","A","1"," ">>
t7 == <<"7">>
tAnn == <<"A","n","n">>
tannPad == <<"a","n","n"," ">>
tLee == <<"L","e","e">>
tLEE == <<"L","E","E">>
tBob == <<"B","o","b">>
tRay == <<"R","a","y">>
tAnnLee == <<"A","n","n"," ","L","e","e">>
tBobRay == <<"B","o","b"," ","R","a","y">>
tActive == <<"A","c","t","i","v","e">>
tCorePad == <<" ","C","O","R","E"," ">>
tInactive == <<"i","n","a","c","t","i","v","e">>
tVip == <<"v","i","p">>
tActives == <<"a","c","t","i","v","e","s">>
tBlanks == <<" "," ">>
tX == <<"x">>
t4y == <<" ","4","y">>
tMinus3 == <<"-","3">>

TrackerRow(id, full, last, first, level) == <<id, full, last, first, level>>
TrackerRows ==
    { TrackerRow(Str(tA1), Str(tAnnLee), Str(tLee), Str(tAnn), Str(tActive)),
      TrackerRow(Str(ta1), Str(tAnnLee), Str(tLee), Str(tAnn), Str(tCorePad)),
      TrackerRow(Num(7), Str(tBobRay), Str(tRay), Str(tBob), Str(tInactive)),
      TrackerRow(Str(tA1), Str(tAnnLee), Str(tLee), Str(tAnn), Str(tVip)),
      TrackerRow(EmptyCell, Str(tAnnLee), Str(tLee), Str(tAnn), Str(tActive)),
      TrackerRow(Str(tA1), Str(tAnnLee), Str(tLee), Str(tBlanks), Str(tCorePad)),
      TrackerRow(Str(tA1), Str(tAnnLee), Str(tLee), Str(tAnn), EmptyCell),
      TrackerRow(Num(0), Str(tBobRay), Str(tRay), Str(tBob), Str(tActive)) }

StatsRow(id, first, last, E, K) ==
    [c \in 1..STATS_COL_ACTIVITY_SCORE |->
        CASE c = STATS_COL_PERSON_ID -> id
          [] c = STATS_COL_FIRST_NAME -> first
          [] c = STATS_COL_LAST_NAME -> last
          [] c = STATS_COL_QUARTER_EVENTS -> E
          [] c = STATS_COL_ACTIVITY_SCORE -> K
          [] OTHER -> EmptyCell]
StatsHeader ==
    StatsRow(Str(<<"I","D">>), Str(<<"F","i","r","s","t">>), Str(<<"L","a","s","t">>),
             Str(<<"E","v","e","n","t","s">>), Str(<<"S","c","o","r","e">>))
StatsTables ==
    { <<StatsHeader>>,
      <<StatsHeader, StatsRow(Str(tA1pad), Str(tannPad), Str(tLEE), Str(tX), Str(t4y))>>,
      <<StatsHeader, StatsRow(Str(tA1), Str(tAnn), Str(tLee), Num(15), Num(0)),
                     StatsRow(Str(tA1), Str(tAnn), Str(tLee), Num(2), Num(20))>>,
      <<StatsHeader, StatsRow(Str(ta1), Str(tAnn), Str(tLee), Num(15), Num(0)),
                     StatsRow(Str(t7), Str(tBob), Str(tRay), Str(tMinus3), EmptyCell)>> }

\* (today, timeZone) of a run.
RunClocks ==
    { [today |-> MakeDate(2024, 0, 1, 0), timeZone |-> 0],
      [today |-> MakeDate(2024, 0, 1, 0), timeZone |-> -1],
      [today |-> MakeDate(2024, 2, 31, 23), timeZone |-> 1],
      [today |-> MakeDate(2024, 3, 5, 12), timeZone |-> 0],
      [today |-> MakeDate(2025, 2, 3, 12), timeZone |-> 0] }

OldEventRow ==
    NewEventAttendanceRow(
        TrackerRow(Str(t7), Str(tBobRay), Str(tRay), Str(tBob), Str(tInactive)),
        1, <<12, 30, 2023>>, <<12, 31, 2023>>)
EventSheets ==
    { [has |-> FALSE, rows |-> <<>>],
      [has |-> TRUE, rows |-> <<EventHeaderRow>>],
      [has |-> TRUE, rows |-> <<EventHeaderRow, OldEventRow, BlankRow>>] }

tC1 == <<"C","1">>
tC2 == <<"C","2">>
t5 == <<"5">>
tUrl == <<"u","r","l">>
SettingsRow(id, statsUrl, directoryUrl) == <<EmptyCell, id, statsUrl, directoryUrl>>
SettingsTable ==
    << SettingsRow(Str(<<"I","D">>), Str(<<"S","t","a","t","s">>), Str(<<"D","i","r">>)),
       SettingsRow(Num(5), EmptyCell, Str(tUrl)),
       SettingsRow(Str(tC1), Str(tUrl), Str(tUrl)),
       SettingsRow(Str(tC1), EmptyCell, EmptyCell) >>
OkSetup ==
    [uatSheet |-> TRUE, communityId |-> Str(tC1), settingsTab |-> TRUE,
     settingsData |-> SettingsTable, opens |-> TRUE, statsTab |-> TRUE]
Setups ==
    { OkSetup,
      [OkSetup EXCEPT !.uatSheet = FALSE],
      [OkSetup EXCEPT !.communityId = EmptyCell],
      [OkSetup EXCEPT !.settingsTab = FALSE, !.settingsData = <<>>],
      [OkSetup EXCEPT !.communityId = Str(tC2)],
      [OkSetup EXCEPT !.communityId = Str(t5)],
      [OkSetup EXCEPT !.opens = FALSE],
      [OkSetup EXCEPT !.statsTab = FALSE] }

RECURSIVE SeqsUpTo(_, _)
SeqsUpTo(S, n) ==
    IF n = 0 THEN {<<>>}
    ELSE LET shorter == SeqsUpTo(S, n - 1)
         IN  shorter \cup {Append(q, x) : q \in shorter, x \in S}

NoCall == [fn |-> "none"]

Init ==
    /\ pc = "start"
    /\ setup \in Setups
    /\ uatData \in SeqsUpTo(TrackerRows, IF setup = OkSetup THEN MaxRows ELSE 1)
    /\ statsData \in (IF setup = OkSetup THEN StatsTables ELSE {<<StatsHeader>>})
    /\ \E c \in RunClocks : today = c.today /\ timeZone = c.timeZone
    /\ \E es \in EventSheets : hasEventSheet = es.has /\ eventSheet = es.rows
    /\ i = 0
    /\ formattedExecutionDate = <<>>
    /\ recordsToProcessCount = 0
    /\ recordsSkippedOrFailed = <<>>
    /\ recordsMissingDetailsUAT = 0
    /\ eventAttendancesLogged = 0
    /\ newCalculatedScoreK = NoScore
    /\ rowsForEventAttendance = <<>>
    /\ alert = "none"
    /\ call = NoCall
    /\ ret = <<>>

Next == Begin \/ ProcessRow \/ Finish

Spec == Init /\ [][Next]_vars

\* No run: only a helper is called.
Idle ==
    /\ pc = "call"
    /\ setup = OkSetup
    /\ uatData = <<>>
    /\ statsData = <<>>
    /\ today = 0
    /\ timeZone = 0
    /\ hasEventSheet = FALSE
    /\ eventSheet = <<>>
    /\ i = 0
    /\ formattedExecutionDate = <<>>
    /\ recordsToProcessCount = 0
    /\ recordsSkippedOrFailed = <<>>
    /\ recordsMissingDetailsUAT = 0
    /\ eventAttendancesLogged = 0
    /\ newCalculatedScoreK = NoScore
    /\ rowsForEventAttendance = <<>>
    /\ alert = "none"
    /\ ret = <<>>

LevelCells ==
    { Str(tInactive), Str(tActive), Str(tCorePad), Str(tVip), Str(tActives), EmptyCell }
NumberCells == { Num(n) : n \in -MaxAbs..MaxAbs }
TextCells == { EmptyCell, Str(tX), Str(t4y), Str(tMinus3) }

InitScore ==
    /\ Idle
    /\ \E l \in LevelCells, e \in NumberCells \cup TextCells, k \in NumberCells \cup TextCells :
          call = [fn |-> "resolve", level |-> l, E |-> e, K |-> k]
SpecScore == InitScore /\ [][ResolveCall]_vars

InitDates ==
    /\ Idle
    /\ \E n \in -1..MaxN, d \in 0..MaxDay, h \in Hours, tz \in TimeZones :
          call = [fn |-> "generate", N |-> n, referenceDate |-> 24 * d + h, tz |-> tz]
SpecDates == InitDates /\ [][GenerateCall]_vars

-----------------------------------------------------------------------------
(* Properties.                                                              *)

Clamp(x, lo, hi) == IF x < lo THEN lo ELSE IF x > hi THEN hi ELSE x
Resolved == call.fn = "resolve" /\ ret # <<>>

\* C1: with level 'active' and integers E and K in the stats cells (negative
\* values taken as they are), the new score is
\* max(0, clamp(E + K + 3, 3, 11) - E).
C1_ActiveScore ==
    (Resolved /\ call.level = Str(tActive) /\ call.E.t = "n" /\ call.K.t = "n") =>
        /\ ret[1].known
        /\ ret[1].K = Max(0, Clamp(call.E.n + call.K.n + 3, 3, 11) - call.E.n)
\* E = -5, K = -2: the sum -4 is raised to 3 and the score is 3 - (-5) = 8.
C1_Witness ==
    /\ Resolved
    /\ call.level = Str(tActive)
    /\ call.E = Num(-5)
    /\ call.K = Num(-2)
    /\ ret[1] = [known |-> TRUE, K |-> 8]

\* C2: level 'inactive' gives score 1 and level 'core' gives score 12,
\* whatever the E and K cells hold (negative numbers and unparseable text
\* included).
C2_FixedScores ==
    Resolved =>
        /\ call.level = Str(tInactive) => ret[1] = [known |-> TRUE, K |-> 1]
        /\ call.level = Str(tCorePad) => ret[1] = [known |-> TRUE, K |-> 12]
\* 'core' with an unparseable E cell and a negative K cell.
C2_Witness ==
    /\ Resolved
    /\ call.level = Str(tCorePad)
    /\ call.E = Str(tX)
    /\ call.K = Num(-7)
    /\ ret[1].K = 12

\* Calendar order of formatted dates <<M, d, yyyy>>.
DateBefore(a, b) ==
    \/ a[3] < b[3]
    \/ a[3] = b[3] /\ a[1] < b[1]
    \/ a[3] = b[3] /\ a[1] = b[1] /\ a[2] < b[2]
Generated == call.fn = "generate" /\ ret # <<>>
\* The day (counted from 1 January of BaseYear) on which the quarter of day n
\* starts: the latest day up to n that is the 1st of January, April, July or
\* October.
QuarterStartDay(n) ==
    LET starts == {q \in (n - 92)..n :
                      /\ CivilFrom(BaseYear, q).date = 1
                      /\ CivilFrom(BaseYear, q).month \in {0, 3, 6, 9}}
    IN  CHOOSE q \in starts : \A r \in starts : r <= q
\* The number of days from the quarter start through the day of t, inclusive,
\* on the calendar of the script's zone.
DaysIntoQuarter(t) == FloorDiv24(t) - QuarterStartDay(FloorDiv24(t)) + 1
FormattedDay(n) ==
    LET c == CivilFrom(BaseYear, n) IN <<c.month + 1, c.date, c.year>>

\* C5: generateRecentDistinctDates returns the empty list when N <= 0; when
\* N > 0 it returns at most N dates and none of them is a calendar day before
\* the first day of the reference date's quarter.
C5_Original ==
    Generated =>
        /\ call.N <= 0 => ret[1] = <<>>
        /\ call.N > 0 =>
              LET quarterStart == FormattedDay(QuarterStartDay(FloorDiv24(call.referenceDate)))
              IN  /\ Len(ret[1]) <= call.N
                  /\ \A k \in 1..Len(ret[1]) : ~DateBefore(ret[1][k], quarterStart)
\* The same statement for calls whose timeZone is the script's own zone.
C5_SameZone == call.tz = 0 => C5_Original

\* C6: for N > 0 the result is exactly the consecutive calendar days
\* referenceDate, referenceDate - 1, ..., referenceDate - (m - 1), in that
\* order, with m the smaller of N and the number of days from the quarter
\* start through the reference date; on the first day of a quarter it is the
\* reference date alone.
C6_Original ==
    (Generated /\ call.N > 0) =>
        LET day == FloorDiv24(call.referenceDate)
            m == Min(call.N, DaysIntoQuarter(call.referenceDate))
        IN  /\ ret[1] = [k \in 1..m |-> FormattedDay(day - (k - 1))]
            /\ day = QuarterStartDay(day) => ret[1] = <<FormattedDay(day)>>
\* The same statement for calls whose timeZone is the script's own zone.
C6_SameZone == call.tz = 0 => C6_Original

\* A step of the loop over the tracker rows: row i + 1 is handled.
RowStep == pc = "loop" /\ i' = i + 1
\* The tracker row handled last.
LastRow == uatData[i]
RowHandled == pc \in {"loop", "done"} /\ i >= 1

\* C3 as stated: the rows appended for a person are exactly K' in number, and
\* never more than the days from the quarter start through the reference
\* date.
C3_Original ==
    [][(RowStep /\ newCalculatedScoreK'.known) =>
          /\ GetLastRow(eventSheet') - GetLastRow(eventSheet) = newCalculatedScoreK'.K
          /\ GetLastRow(eventSheet') - GetLastRow(eventSheet) <= DaysIntoQuarter(today)]_vars
\* C3, amended: the rows appended for a person number min(K', D), with D the
\* days from the quarter start through the reference date on the calendar of
\* the script's zone; so never more than K' and never more than D.
C3_RowsAppended ==
    [][(RowStep /\ newCalculatedScoreK'.known) =>
          GetLastRow(eventSheet') - GetLastRow(eventSheet)
              = Min(newCalculatedScoreK'.K, DaysIntoQuarter(today))]_vars
\* A 'core' person on the fifth day of a quarter: score 12, five rows.
C3_Witness ==
    /\ RowHandled
    /\ newCalculatedScoreK = [known |-> TRUE, K |-> 12]
    /\ Len(rowsForEventAttendance) = 5
    /\ DaysIntoQuarter(today) = 5

\* C7: the rows appended for a person are one per generated date, in the
\* generator's order (most recent first); the n-th carries the label
\* 'BASELINE ADJUSTMENT n', the person's id, full name, first name and last
\* name, and the run's one execution date.
C7_EventRows ==
    [][(RowStep /\ newCalculatedScoreK'.known) =>
          LET row == uatData[i + 1]
              dates == generateRecentDistinctDates(newCalculatedScoreK'.K, today, timeZone)
              first == GetLastRow(eventSheet)
              added == IF newCalculatedScoreK'.K > 0 THEN Len(dates) ELSE 0
          IN  /\ GetLastRow(eventSheet') = first + added
              /\ \A n \in 1..added :
                    LET r == eventSheet'[first + n]
                    IN  /\ r[3] = [t |-> "label", text |-> "BASELINE ADJUSTMENT ", counter |-> n]
                        /\ r[11] = DateCell(dates[n])
                        /\ n > 1 => DateBefore(r[11].d, eventSheet'[first + n - 1][11].d)
                        /\ r[1] = row[UAT_COL_ID]
                        /\ r[2] = row[UAT_COL_FULL_NAME]
                        /\ r[5] = row[UAT_COL_FIRST_NAME]
                        /\ r[6] = row[UAT_COL_LAST_NAME]
                        /\ r[14] = DateCell(FormatDate(today, timeZone))]_vars
\* Five rows for one person, the last labelled 5 and dated 1 April.
C7_Witness ==
    /\ RowHandled
    /\ Len(rowsForEventAttendance) = 5
    /\ eventSheet[GetLastRow(eventSheet)][3].counter = 5
    /\ eventSheet[GetLastRow(eventSheet)][11] = DateCell(<<4, 1, 2024>>)
    /\ eventSheet[GetLastRow(eventSheet)][14] = DateCell(<<4, 5, 2024>>)

\* A cell that is blank for the tracker: empty or white space only (and, by
\* the truthiness test `x && ...`, the number 0).
BlankCell(cell) ==
    IF cell.t = "s" THEN \A k \in 1..Len(cell.s) : cell.s[k] \in WhiteSpace
    ELSE cell.n = 0
CompleteIdentity(row) ==
    /\ ~BlankCell(row[UAT_COL_ID])
    /\ ~BlankCell(row[UAT_COL_FIRST_NAME])
    /\ ~BlankCell(row[UAT_COL_LAST_NAME])
LevelNames == { <<"i","n","a","c","t","i","v","e">>, <<"a","c","t","i","v","e">>,
                <<"c","o","r","e">> }
UnknownLevel(row) ==
    /\ ~BlankCell(row[UAT_COL_ACTIVITY_LEVEL])
    /\ ToLowerCase(Trim(StringOf(row[UAT_COL_ACTIVITY_LEVEL]))) \notin LevelNames
\* What a run appends for one tracker row, from that row, the stats sheet and
\* the clock of the run alone.
RowsDue(row) ==
    IF CompleteIdentity(row) /\ ~BlankCell(row[UAT_COL_ACTIVITY_LEVEL]) /\ ~UnknownLevel(row)
    THEN EventRowsFor(row, ScoreOf(statsData, row).K, today, timeZone,
                      FormatDate(today, timeZone))
    ELSE <<>>
RowsAdded(before, after) ==
    SubSeq(after, GetLastRow(before) + 1, GetLastRow(after))

\* C4: a row with complete identity and a level that is none of 'inactive',
\* 'active', 'core' goes to the skipped list, gets no score and no event
\* rows; the loop goes on, and every row is handled as the row, the stats and
\* the clock alone determine, whatever came before it.
C4_UnknownLevel ==
    /\ [][RowStep =>
            LET row == uatData[i + 1]
            IN  /\ pc' = "loop"
                /\ RowsAdded(eventSheet, eventSheet') = RowsDue(row)
                /\ (CompleteIdentity(row) /\ UnknownLevel(row)) =>
                      /\ recordsSkippedOrFailed' =
                            Append(recordsSkippedOrFailed,
                                   [firstName |-> row[UAT_COL_FIRST_NAME],
                                    lastName |-> row[UAT_COL_LAST_NAME],
                                    id |-> row[UAT_COL_ID], why |-> "Unknown Level"])
                      /\ ~newCalculatedScoreK'.known
                      /\ eventSheet' = eventSheet
                      /\ eventAttendancesLogged' = eventAttendancesLogged]_vars
    /\ [](alert = "Processing Complete" => i = Len(uatData))
\* An unknown level first, then a person who gets rows.
C4_Witness ==
    /\ pc = "done"
    /\ i = 2
    /\ CompleteIdentity(uatData[1]) /\ UnknownLevel(uatData[1])
    /\ Len(recordsSkippedOrFailed) = 1
    /\ newCalculatedScoreK.known
    /\ Len(rowsForEventAttendance) > 0
    /\ eventAttendancesLogged = Len(rowsForEventAttendance)

\* E or K of a stats cell: its integer, 0 when it starts with no integer.
Unparseable(cell) ==
    /\ cell.t = "s"
    /\ LET s == TrimStart(cell.s)
           body == IF s # <<>> /\ Head(s) \in {"-", "+"} THEN Tail(s) ELSE s
       IN  body = <<>> \/ ~IsDigit(Head(body))
IntegerOf(cell) == IF Unparseable(cell) THEN 0 ELSE ParseInt(cell).v
ActiveScore(E, K) == Max(0, Clamp(E + K + 3, 3, 11) - E)

\* C8: a person no stats row matches is not skipped and raises no error: the
\* score is computed from E = 0 and K = 0 (3 for 'active'); E and K cells
\* that are no base-10 integer count as 0.
C8_ColdStart ==
    [][(RowStep /\ CompleteRow(uatData[i + 1])
          /\ uatData[i + 1][UAT_COL_ACTIVITY_LEVEL] = Str(tActive)) =>
          LET row == uatData[i + 1]
              hits == {j \in 1..Len(statsData) : StatsRowMatches(statsData[j], row)}
              j0 == CHOOSE j \in hits : \A k \in hits : j <= k
          IN  /\ recordsToProcessCount' = recordsToProcessCount + 1
              /\ recordsSkippedOrFailed' = recordsSkippedOrFailed
              /\ alert' = alert
              /\ hits = {} => newCalculatedScoreK' = [known |-> TRUE, K |-> 3]
              /\ hits # {} =>
                    newCalculatedScoreK' =
                        [known |-> TRUE,
                         K |-> ActiveScore(IntegerOf(statsData[j0][STATS_COL_QUARTER_EVENTS]),
                                           IntegerOf(statsData[j0][STATS_COL_ACTIVITY_SCORE]))]]_vars
\* An 'active' person on a stats sheet that holds the header only: score 3.
C8_Witness ==
    /\ RowHandled
    /\ LastRow[UAT_COL_ACTIVITY_LEVEL] = Str(tActive)
    /\ CompleteRow(LastRow)
    /\ statsData = <<StatsHeader>>
    /\ newCalculatedScoreK = [known |-> TRUE, K |-> 3]
    /\ recordsSkippedOrFailed = <<>>
    /\ Len(rowsForEventAttendance) >= 1

\* The first stats row matching under `match`, as E and K; (0, 0) when none.
StatsUnder(match(_, _), row) ==
    LET hits == {j \in 1..Len(statsData) : match(statsData[j], row)}
        j0 == CHOOSE j \in hits : \A k \in hits : j <= k
    IN  IF hits = {} THEN <<0, 0>>
        ELSE <<IntegerOf(statsData[j0][STATS_COL_QUARTER_EVENTS]),
               IntegerOf(statsData[j0][STATS_COL_ACTIVITY_SCORE])>>
Normal(cell) == ToLowerCase(Trim(StringOf(cell)))
MatchIgnoringCase(statsRow, row) ==
    /\ Normal(statsRow[STATS_COL_PERSON_ID]) = Normal(row[UAT_COL_ID])
    /\ Normal(statsRow[STATS_COL_FIRST_NAME]) = Normal(row[UAT_COL_FIRST_NAME])
    /\ Normal(statsRow[STATS_COL_LAST_NAME]) = Normal(row[UAT_COL_LAST_NAME])
MatchIdExact(statsRow, row) ==
    /\ Trim(StringOf(statsRow[STATS_COL_PERSON_ID])) = Trim(StringOf(row[UAT_COL_ID]))
    /\ Normal(statsRow[STATS_COL_FIRST_NAME]) = Normal(row[UAT_COL_FIRST_NAME])
    /\ Normal(statsRow[STATS_COL_LAST_NAME]) = Normal(row[UAT_COL_LAST_NAME])
ActivePersonHandled ==
    /\ RowHandled
    /\ CompleteRow(LastRow)
    /\ LastRow[UAT_COL_ACTIVITY_LEVEL] = Str(tActive)

\* C9 as stated: a stats row supplies E and K exactly when person id, first
\* name and last name are each equal after trimming and ignoring letter case.
C9_Original ==
    ActivePersonHandled =>
        LET s == StatsUnder(MatchIgnoringCase, LastRow)
        IN  newCalculatedScoreK = [known |-> TRUE, K |-> ActiveScore(s[1], s[2])]
\* C9, amended: a stats row supplies E and K exactly when the person ids are
\* equal after trimming (letter case counts) and first name and last name
\* are each equal after trimming and ignoring letter case.
C9_IdCaseCounts ==
    ActivePersonHandled =>
        LET s == StatsUnder(MatchIdExact, LastRow)
        IN  newCalculatedScoreK = [known |-> TRUE, K |-> ActiveScore(s[1], s[2])]
\* Person 'A1' and a stats row 'a1' with E = 15: not matched, so the score
\* is 3 and not 0.
C9_Witness ==
    /\ ActivePersonHandled
    /\ LastRow[UAT_COL_ID] = Str(tA1)
    /\ \E j \in 1..Len(statsData) :
          /\ MatchIgnoringCase(statsData[j], LastRow)
          /\ statsData[j][STATS_COL_PERSON_ID] = Str(ta1)
          /\ statsData[j][STATS_COL_QUARTER_EVENTS] = Num(15)
    /\ newCalculatedScoreK = [known |-> TRUE, K |-> 3]

\* C10: a row with a level but a blank id, first name or last name adds one
\* to the missing-details counter and nothing else: it is not counted as
\* processed, not listed as skipped, gets no score and no event rows; a row
\* with a blank level changes no counter and appends nothing.
C10_MissingDetails ==
    [][RowStep =>
          LET row == uatData[i + 1]
              untouched == /\ recordsToProcessCount' = recordsToProcessCount
                           /\ recordsSkippedOrFailed' = recordsSkippedOrFailed
                           /\ ~newCalculatedScoreK'.known
                           /\ rowsForEventAttendance' = <<>>
                           /\ eventSheet' = eventSheet
                           /\ eventAttendancesLogged' = eventAttendancesLogged
          IN  /\ (~BlankCell(row[UAT_COL_ACTIVITY_LEVEL]) /\ ~CompleteIdentity(row)) =>
                    /\ recordsMissingDetailsUAT' = recordsMissingDetailsUAT + 1
                    /\ untouched
              /\ BlankCell(row[UAT_COL_ACTIVITY_LEVEL]) =>
                    /\ recordsMissingDetailsUAT' = recordsMissingDetailsUAT
                    /\ untouched]_vars
\* A row with a white-space first name, then a row with a blank level.
C10_Witness ==
    /\ pc = "done"
    /\ i = 2
    /\ uatData[1][UAT_COL_FIRST_NAME] = Str(tBlanks)
    /\ ~BlankCell(uatData[1][UAT_COL_ACTIVITY_LEVEL])
    /\ BlankCell(uatData[2][UAT_COL_ACTIVITY_LEVEL])
    /\ recordsMissingDetailsUAT = 1
    /\ recordsToProcessCount = 0
    /\ eventAttendancesLogged = 0

-----------------------------------------------------------------------------
\* The registry row of the selected community: the first Settings row whose
\* community id equals the cell B4.
RegistryRows ==
    {r \in 1..Len(setup.settingsData) :
        LooseEquals(setup.settingsData[r][SETTINGS_COL_COMMUNITY_ID], setup.communityId)}
StatsUrlMissing ==
    /\ RegistryRows # {}
    /\ LET r == CHOOSE r \in RegistryRows : \A q \in RegistryRows : r <= q
       IN  BlankCell(setup.settingsData[r][SETTINGS_COL_ATTENDANCE_STATS_URL])
SourceFailure ==
    \/ BlankCell(setup.communityId)
    \/ RegistryRows = {}
    \/ StatsUrlMissing
    \/ ~setup.opens
    \/ ~setup.statsTab

\* C11: when the community id is missing or not in the registry, the stats
\* URL is missing, the stats spreadsheet cannot be opened or it has no
\* 'Attendance Stats' tab, the only step of the run is the one that reports
\* an error and ends it: no person is handled, no event row is appended, no
\* header is created, and nothing runs afterwards.
C11_SourceFailure ==
    [][SourceFailure =>
          /\ pc = "start"
          /\ pc' = "done"
          /\ alert' = "Error"
          /\ eventSheet' = eventSheet
          /\ hasEventSheet' = hasEventSheet
          /\ i' = i
          /\ recordsToProcessCount' = recordsToProcessCount
          /\ eventAttendancesLogged' = eventAttendancesLogged
          /\ recordsSkippedOrFailed' = recordsSkippedOrFailed]_vars
\* A run that has no 'Attendance Stats' tab to read, a person waiting in the
\* tracker and no event log yet, after its end.
C11_Witness ==
    /\ SourceFailure
    /\ setup.uatSheet /\ setup.opens /\ ~setup.statsTab
    /\ Len(uatData) = 1 /\ CompleteRow(uatData[1])
    /\ pc = "done"
    /\ alert = "Error"
    /\ ~hasEventSheet
    /\ i = 0

-----------------------------------------------------------------------------
\* C12: with level 'active' and integers E >= 0 and K >= 0 in the stats
\* cells, the new score K' is never negative; when E <= 11 it lies in
\* [0, 11 - E] and E + K' lies in [3, 11]; when E > 11 it is exactly 0.
C12_ActiveRange ==
    (Resolved /\ call.level = Str(tActive) /\ call.E.t = "n" /\ call.K.t = "n"
       /\ call.E.n >= 0 /\ call.K.n >= 0) =>
        LET E == call.E.n
            newK == ret[1].K
        IN  /\ ret[1].known
            /\ newK >= 0
            /\ E <= 11 => /\ newK <= 11 - E
                          /\ 3 <= E + newK
                          /\ E + newK <= 11
            /\ E > 11 => newK = 0
\* An 'active' person whose E alone is past 11, and one whose sum is capped.
C12_Witness ==
    /\ Resolved
    /\ call.level = Str(tActive)
    /\ \/ call.E = Num(12) /\ call.K = Num(5) /\ ret[1] = [known |-> TRUE, K |-> 0]
       \/ call.E = Num(4) /\ call.K = Num(9) /\ ret[1] = [known |-> TRUE, K |-> 7]

-----------------------------------------------------------------------------
\* The stats row matched for a tracker row: the first one the stats loop
\* accepts, as a table of that row alone; the empty table when none matches.
MatchedStats(row) ==
    LET hits == {j \in 1..Len(statsData) : StatsRowMatches(statsData[j], row)}
    IN  IF hits = {} THEN <<>>
        ELSE << statsData[CHOOSE j \in hits : \A k \in hits : j <= k] >>
\* The rows of a run whose batch is this person alone, whose stats sheet is
\* the matched row alone and whose log is new: a function of its arguments
\* and of nothing else.
SoloRows(row, matched, referenceDate, tz) ==
    LET score == ScoreOf(matched, row)
        dates == generateRecentDistinctDates(score.K, referenceDate, tz)
    IN  IF CompleteRow(row) /\ score.known /\ score.K > 0
        THEN [n \in 1..Len(dates) |->
                 NewEventAttendanceRow(row, n, dates[n], FormatDate(referenceDate, tz))]
        ELSE <<>>

\* C13: the rows appended for a person are those a run of that person alone
\* would append, given the person's tracker row, the stats row matched for
\* them and the run's reference date (read in the spreadsheet's time zone):
\* neither the other persons of the batch, nor their order, nor earlier
\* skips, nor the rows already in the event log have any part in them.
C13_SameInputsSameRows ==
    [][RowStep =>
          RowsAdded(eventSheet, eventSheet')
             = SoloRows(uatData[i + 1], MatchedStats(uatData[i + 1]), today, timeZone)]_vars
\* The second person of a batch whose first was skipped, with a stats sheet
\* of several rows and a log that held a row already, has got event rows.
C13_Witness ==
    /\ RowHandled
    /\ i = 2
    /\ Len(recordsSkippedOrFailed) = 1
    /\ UnknownLevel(uatData[1])
    /\ MatchedStats(uatData[2]) # <<>>
    /\ Len(statsData) > 2
    /\ Len(eventSheet) > 3
    /\ eventSheet[2] = OldEventRow
    /\ Len(rowsForEventAttendance) > 1
    /\ RowsAdded(<<EventHeaderRow, OldEventRow, BlankRow>>, eventSheet)
          = SoloRows(uatData[2], MatchedStats(uatData[2]), today, timeZone)

-----------------------------------------------------------------------------
\* C14: no step of a run changes a cell of the 'Attendance Stats' sheet, and
\* the event log is only appended to: every row up to the last one with
\* content stays as it was, and a person's new rows take the rows right
\* after it, in order.
C14_AppendOnly ==
    [][/\ statsData' = statsData
       /\ LET last == GetLastRow(eventSheet)
          IN  /\ GetLastRow(eventSheet') >= last
              /\ \A r \in 1..last : eventSheet'[r] = eventSheet[r]
              /\ RowStep =>
                    /\ GetLastRow(eventSheet') = last + Len(rowsForEventAttendance')
                    /\ \A n \in 1..Len(rowsForEventAttendance') :
                          eventSheet'[last + n] = rowsForEventAttendance'[n]]_vars
\* A finished run over a log that held a row before it: both persons have
\* got rows after that row, and the stats sheet has data rows.
C14_Witness ==
    /\ pc = "done"
    /\ alert = "Processing Complete"
    /\ i = 2
    /\ Len(statsData) > 1
    /\ Len(eventSheet) > 3
    /\ eventSheet[1] = EventHeaderRow
    /\ eventSheet[2] = OldEventRow
    /\ eventAttendancesLogged = GetLastRow(eventSheet) - 2
    /\ eventAttendancesLogged > Len(rowsForEventAttendance)
    /\ Len(rowsForEventAttendance) > 0

-----------------------------------------------------------------------------
\* The column of the event log that its header row labels with a name.
HeaderColumn(name) ==
    CHOOSE c \in 1..EVENT_ROW_WIDTH : eventSheet[1][c] = Header(name)
\* The log has the header row that updateActivityLevels writes on first use.
LogCreatedByRun == Len(eventSheet) >= 1 /\ eventSheet[1] = EventHeaderRow

\* C15: in an event log with the header row written on first use, every row
\* appended for a person has the person id under 'Person ID', the full name
\* under 'Full Name', the label under 'Event', the first name under
\* 'First Name', the last name under 'Last Name', the event date under
\* 'Event Date' and the execution date under 'Update Timestamp'.
C15_Original ==
    [][(RowStep /\ LogCreatedByRun) =>
          LET row == uatData[i + 1]
              first == GetLastRow(eventSheet)
          IN  \A n \in 1..(GetLastRow(eventSheet') - first) :
                 LET r == eventSheet'[first + n]
                 IN  /\ r[HeaderColumn("Person ID")] = row[UAT_COL_ID]
                     /\ r[HeaderColumn("Full Name")] = row[UAT_COL_FULL_NAME]
                     /\ r[HeaderColumn("Event")] = Label(n)
                     /\ r[HeaderColumn("First Name")] = row[UAT_COL_FIRST_NAME]
                     /\ r[HeaderColumn("Last Name")] = row[UAT_COL_LAST_NAME]
                     /\ r[HeaderColumn("Event Date")].t = "date"
                     /\ r[HeaderColumn("Update Timestamp")]
                           = DateCell(formattedExecutionDate)]_vars

====
